---- MODULE Spec2Model ----
(***************************************************************************)
(* Model of the multi-provider stock fetcher of Investment-helper:         *)
(*   backend/services/data_providers/base_provider.py   (circuit breaker)  *)
(*   backend/services/data_providers/local_provider.py                     *)
(*   backend/services/data_providers/yfinance_provider.py                  *)
(*   backend/services/data_providers/{alphavantage,finnhub,yahoo}_provider *)
(*   backend/services/multi_provider_fetcher.py         (orchestrator)     *)
(*                                                                         *)
(* The coroutines fetch_comprehensive_stocks and health_check are cut at   *)
(* their await points: one action starts the call and runs it to its first *)
(* await, one action per await point resumes it with the outcome of the    *)
(* awaited provider call and runs it to the next await or to its return.   *)
(* One call is in progress at a time.                                      *)
(*                                                                         *)
(* Also modelled, each under a specification of its own:                   *)
(*   backend/services/model_service.py   (get_confidence_label,            *)
(*                                        walk_forward_validation,         *)
(*                                        train_and_predict)               *)
(*   backend/core/cache.py               (cached, model_cache)             *)
(*   the breaker methods statement by statement, called from threads       *)
(*   a provider fetch that never completes                                 *)
(*   backend/services/data_providers/yfinance_provider.py, one symbol at   *)
(*                                        a time                           *)
(*   backend/services/features.py        (engineer_features)               *)
(*   backend/services/yahoo_service.py   (the _yahoo_finance_down flag)    *)
(***************************************************************************)
EXTENDS Naturals, Sequences, FiniteSets, TLC

\* ------------------------------------------------------------------ bounds
\* error_count is unbounded in the code (on_error keeps counting after the
\* provider is disabled); steps that would take it past this cap are cut.
MaxErrorCount == 6

\* ------------------------------------------------------- program constants
max_errors == 5

LocalDatabase == "Local Database"
YFinanceDirect == "YFinance Direct"
AlphaVantage == "Alpha Vantage"
Finnhub == "Finnhub"
YahooFinance == "Yahoo Finance"

Providers == {LocalDatabase, YFinanceDirect, AlphaVantage, Finnhub, YahooFinance}

\* The three providers that go through an aiohttp session and count an empty
\* batch as an error.
SessionProviders == {AlphaVantage, Finnhub, YahooFinance}

priority(p) ==
  CASE p = LocalDatabase -> 1
    [] p = YFinanceDirect -> 5
    [] p = AlphaVantage -> 10
    [] p = Finnhub -> 15
    [] p = YahooFinance -> 20

requires_api_key(p) == p \in {AlphaVantage, Finnhub}

\* symbols[:10], symbols[:20], symbols[:30], symbols[:50]; the local provider
\* takes no symbols.
batch_limit(p) ==
  CASE p = YFinanceDirect -> 10
    [] p = AlphaVantage -> 20
    [] p = Finnhub -> 30
    [] p = YahooFinance -> 50
    [] OTHER -> 0

Min(a, b) == IF a <= b THEN a ELSE b

\* --------------------------------------------------------------- strings
\* A string is the sequence of its characters, so that ' ' in term, len(term)
\* and term.endswith(...) are computed as the code computes them.
TCS_NS == <<"T", "C", "S", ".", "N", "S">>
RELIANCE_NS == <<"R", "E", "L", "I", "A", "N", "C", "E", ".", "N", "S">>
TATA_MOTORS == <<"T", "a", "t", "a", " ", "M", "o", "t", "o", "r", "s">>
HINDUSTANUNILEVER ==
  <<"H", "I", "N", "D", "U", "S", "T", "A", "N", "U", "N", "I", "L", "E", "V", "E", "R">>

Contains(s, ch) == \E k \in 1..Len(s) : s[k] = ch

EndsWith(s, suffix) ==
  /\ Len(s) >= Len(suffix)
  /\ SubSeq(s, Len(s) - Len(suffix) + 1, Len(s)) = suffix

\* line 82: ' ' in term or (len(term) > 10 and not term.endswith(('.NS', '.BO')))
IsCompanyName(term) ==
  \/ Contains(term, " ")
  \/ /\ Len(term) > 10
     /\ ~(EndsWith(term, <<".", "N", "S">>) \/ EndsWith(term, <<".", "B", "O">>))

RECURSIVE FilterTerms(_, _)
\* The terms of a list that are (want = TRUE) or are not company names, in order.
FilterTerms(terms, want) ==
  IF terms = <<>> THEN <<>>
  ELSE LET rest == FilterTerms(Tail(terms), want)
       IN IF IsCompanyName(Head(terms)) = want THEN <<Head(terms)>> \o rest ELSE rest

\* Head of the 60-symbol list of _get_default_symbols ('RELIANCE.NS', ...): the
\* model keeps its first symbol.
get_default_symbols == <<RELIANCE_NS>>

\* ---------------------------------------------------------------- records
\* A stock record: its ticker and, standing for the provider-specific payload
\* (name, sector, market_cap, last_price), the provider that produced it.
Rec(t, p) == [ticker |-> t, source |-> p]

\* Contents the local JSON file may have when it loads: an empty list, or a
\* list with a repeated ticker and a row whose ticker is missing or empty.
LocalFiles ==
  << <<>>,
     <<Rec(RELIANCE_NS, LocalDatabase), Rec(<<>>, LocalDatabase),
       Rec(TCS_NS, LocalDatabase), Rec(RELIANCE_NS, LocalDatabase)>> >>

\* search_terms: Optional[List[str]]
NoTerms == [is_none |-> TRUE, list |-> <<>>]
Terms(l) == [is_none |-> FALSE, list |-> l]

\* Python truthiness of search_terms: None and [] are falsy.
Truthy(st) == ~st.is_none /\ st.list # <<>>

SearchInputs ==
  { NoTerms, Terms(<<>>), Terms(<<TCS_NS>>), Terms(<<TATA_MOTORS>>),
    Terms(<<TCS_NS, RELIANCE_NS>>), Terms(<<HINDUSTANUNILEVER, TCS_NS>>) }

\* ------------------------------------------------------- confidence label
\* Probabilities are fixed-point numbers: One stands for 1.0.
One == 1000000
NoProbability == One + 1

\* core/config.py
CONFIDENCE_HIGH == 650000
CONFIDENCE_MEDIUM == 550000

\* model_service.py get_confidence_label
get_confidence_label(p) ==
  IF p >= CONFIDENCE_HIGH \/ p <= One - CONFIDENCE_HIGH THEN "HIGH"
  ELSE IF p >= CONFIDENCE_MEDIUM /\ p <= One - CONFIDENCE_MEDIUM THEN "MEDIUM"
  ELSE "LOW"

\* every hundredth of [0, 1] and the neighbours of the four thresholds
ProbabilityInputs ==
  {k * (One \div 100) : k \in 0..100}
    \cup {t + d : t \in {CONFIDENCE_HIGH, CONFIDENCE_MEDIUM,
                         One - CONFIDENCE_HIGH, One - CONFIDENCE_MEDIUM},
                  d \in {0, 1}}
    \cup {t - 1 : t \in {CONFIDENCE_HIGH, CONFIDENCE_MEDIUM,
                         One - CONFIDENCE_HIGH, One - CONFIDENCE_MEDIUM}}

\* -------------------------------------------------- walk_forward_validation
MaxSamples == 500

\* lines 40-44, the fractions in tenths
splits == << <<6, 8>>, <<7, 9>>, <<8, 10>> >>

RECURSIVE Pow2Below(_, _)
\* the largest power of two, starting from e, that is at most x
Pow2Below(x, e) == IF 2 * e <= x THEN Pow2Below(x, 2 * e) ELSE e

\* int(n_samples * pct) for pct = tenths / 10 as a double.  The doubles 0.8,
\* 0.9 and 1.0 are not below their decimal value and 0.6 is below it by too
\* little to matter; 0.7 is 0.4 units of 2^-53 short, so when 7n/10 is a whole
\* number q the product rounds to the double just below q as soon as
\* 0.4 * n exceeds the power of two at or below q, and int() then gives q - 1
\* (n = 90 gives 62).
int_times(n, tenths) ==
  LET q == (n * tenths) \div 10
  IN IF /\ tenths = 7 /\ n > 0 /\ (n * tenths) % 10 = 0
        /\ 2 * n > 5 * Pow2Below(q, 1)
     THEN q - 1 ELSE q

\* a slice that always starts at the first row
py_slice_from_start(n, a, b) ==
  [lo |-> 0, hi |-> IF b < n THEN b ELSE n]

\* X[a:b] on n rows, 0 <= a <= b: the rows lo .. hi - 1
py_slice(n, a, b) ==
  [lo |-> IF a < n THEN a ELSE n, hi |-> IF b < n THEN b ELSE n]

\* a split skipped when its test slice has ten rows or fewer
too_few_at_ten(train_end_idx, test_end_idx) == test_end_idx - train_end_idx <= 10

\* line 50
too_few(train_end_idx, test_end_idx) == test_end_idx - train_end_idx < 10

\* model.score(X_test, y_test): correct predictions out of the test rows
ScoreChoices(size) == {<<0, size>>, <<size \div 2, size>>, <<size, size>>}

\* fractions <<numerator, denominator>>
RatAdd(a, b) == <<a[1] * b[2] + b[1] * a[2], a[2] * b[2]>>
RECURSIVE Gcd(_, _)
Gcd(a, b) == IF b = 0 THEN a ELSE Gcd(b, a % b)

\* a fraction in lowest terms
RatNorm(a) == LET g == Gcd(a[1], a[2]) IN <<a[1] \div g, a[2] \div g>>

\* equality of fractions, compared in lowest terms to keep the numbers small
RatEq(a, b) == RatNorm(a) = RatNorm(b)

RECURSIVE RatSum(_)
RatSum(fs) == IF fs = <<>> THEN <<0, 1>> ELSE RatAdd(Head(fs), RatSum(Tail(fs)))

\* np.mean(accuracies)
np_mean(fs) == LET t == RatSum(fs) IN <<t[1], t[2] * Len(fs)>>

NoReturn == [accuracy |-> <<0, 1>>, samples |-> 0, returned |-> FALSE]
Return2(a, k) == [accuracy |-> a, samples |-> k, returned |-> TRUE]

\* -------------------------------------------------------- model_cache
\* core/cache.py line 12: TTLCache(maxsize=100, ttl=600)
maxsize == 100
ttl == 600

MaxTickers == 101
MaxTime == 600

\* model_service.py line 78: key_func
cache_key(ticker) == <<"model_", ticker>>

\* TTLCache.__contains__: the key has an entry that has not expired
InCache(c, key, time) ==
  \E k \in 1..Len(c) : c[k].key = key /\ time < c[k].expires

\* TTLCache.__getitem__: the value, and the entry becomes the most recently used
CacheValue(c, key) == c[CHOOSE k \in 1..Len(c) : c[k].key = key].value
Touch(c, key) ==
  SelectSeq(c, LAMBDA e : e.key # key) \o SelectSeq(c, LAMBDA e : e.key = key)

\* a wrapper that computes the result and does not store it
cache_set_not_stored(c, key, value, time) == c

\* TTLCache.__setitem__: expired entries go first, then the least recently used
\* one when the cache is full; the new entry lives for ttl seconds
cache_set(c, key, value, time) ==
  LET live == SelectSeq(c, LAMBDA e : time < e.expires)
      rest == SelectSeq(live, LAMBDA e : e.key # key)
      room == IF Len(rest) = Len(live) /\ Len(live) + 1 > maxsize THEN Tail(rest) ELSE rest
  IN Append(room, [key |-> key, value |-> value, expires |-> time + ttl])

\* ---------------------------------------------------- train_and_predict
\* get_historical_data(ticker, "2y", "1d"): None, or a frame of len bars
NoFrame == [is_none |-> TRUE, len |-> 0]
Bars(k) == [is_none |-> FALSE, len |-> k]
\* Only ticker 1's history and prediction vary; the other tickers matter by
\* the room their results take in the cache.
HistoryChoices(ticker) ==
  IF ticker = 1 THEN {NoFrame, Bars(199), Bars(200)} ELSE {Bars(200)}

\* rows left by dropna: the indicator warm-up is lost, gaps in the data cost more
ValidChoices(ticker, df) ==
  IF df.is_none \/ df.len < 200 THEN {0}
  ELSE IF ticker = 1 THEN {99, df.len - 50} ELSE {df.len - 50}

\* predict_proba of the final model
ProbaChoices(ticker) == IF ticker = 1 THEN {600000, 700000} ELSE {600000}

NoError == [type |-> "none", message |-> <<>>]
ValueError(msg) == [type |-> "ValueError", message |-> msg]
NoResult == [ticker |-> 0]

\* lines 109: the test rows and the fits of walk_forward_validation on n rows
KeptSplits(n) ==
  {k \in 1..Len(splits) :
     ~too_few(int_times(n, splits[k][1]), int_times(n, splits[k][2]))}
RECURSIVE RowsOf(_, _)
RowsOf(n, ks) ==
  IF ks = {} THEN 0
  ELSE LET k == CHOOSE x \in ks : TRUE
       IN int_times(n, splits[k][2]) - int_times(n, splits[k][1]) + RowsOf(n, ks \ {k})

Raise(e) == [raised |-> TRUE, error |-> e, result |-> NoResult, fits |-> 0]

\* a 150-bar minimum instead of the 200-bar one
train_and_predict_min_150(ticker, df, valid_rows, proba) ==
  IF df.is_none \/ df.len < 150
  THEN Raise(ValueError(<<"Insufficient data for ", ticker>>))
  ELSE [raised |-> FALSE, error |-> NoError, fits |-> Cardinality(KeptSplits(valid_rows)) + 1,
        result |-> [ticker |-> ticker, samples_used |-> RowsOf(valid_rows, KeptSplits(valid_rows)),
                    probability_up |-> proba,
                    predicted_direction |-> IF 2 * proba >= One THEN "UP" ELSE "DOWN",
                    confidence |-> get_confidence_label(proba)]]

\* lines 87-151: the body of train_and_predict on the fetched history
train_and_predict(ticker, df, valid_rows, proba) ==
  IF df.is_none \/ df.len < 200
  THEN Raise(ValueError(<<"Insufficient data for ", ticker>>))
  ELSE IF valid_rows < 100
  THEN Raise(ValueError(<<"Not enough valid data after feature engineering for ", ticker>>))
  ELSE [raised |-> FALSE, error |-> NoError, fits |-> Cardinality(KeptSplits(valid_rows)) + 1,
        result |-> [ticker |-> ticker, samples_used |-> RowsOf(valid_rows, KeptSplits(valid_rows)),
                    probability_up |-> proba,
                    predicted_direction |-> IF 2 * proba >= One THEN "UP" ELSE "DOWN",
                    confidence |-> get_confidence_label(proba)]]

NoMemo == [valid |-> FALSE, value |-> NoResult, expires |-> 0, others |-> 0]
NoCall == [ticker |-> 0, raised |-> FALSE, error |-> NoError, result |-> NoResult]
NoHist == [fetched |-> FALSE, fits |-> 0, df |-> NoFrame, valid_rows |-> 0, at |-> 0,
           before |-> NoMemo]

\* --------------------------------------------- breaker methods, by statement
NThreads == 2
Threads == 1..NThreads
Methods == {"on_success", "on_error", "reset_errors"}
Ready == [method |-> "none", pc |-> "ready", tmp |-> 0]

\* ------------------------------------------- YFinance per-symbol lookups
\* yfinance_provider.py, fetch_stock_data seen one symbol at a time.  Symbols
\* are numbered; what yf.Ticker(symbol) does upstream is an input:
\*   "found"      info carries the symbol
\*   "no_symbol"  info is empty or lacks 'symbol'
\*   "error"      the library raises an exception with another message
\*   "rate_limit" the library raises '429 Too Many Requests'
MaxSymbols == 11
symbol_limit == 10
Upstream == {"found", "no_symbol", "error", "rate_limit"}
NoStock == 0
NoException == "none"

\* lines 51-77: the whole body is inside try / except Exception: return None
fetch_single_stock_yfinance(symbol, upstream) ==
  CASE upstream = "found" -> [raised |-> NoException, value |-> symbol]
    [] upstream = "no_symbol" -> [raised |-> NoException, value |-> NoStock]
    [] upstream = "error" -> [raised |-> NoException, value |-> NoStock]
    [] upstream = "rate_limit" -> [raised |-> NoException, value |-> NoStock]

\* line 34: any(indicator in error_msg for indicator in [...])
is_rate_limit(error_msg) == error_msg = "rate_limit"

\* ------------------------------------------------- feature engineering
\* features.py.  A bar carries Close and Volume as numbers; Open, High and Low
\* are positive prices with High >= Low, on which no outcome below depends.
\* A computed column is followed by the set of its rows that are NaN; the
\* other rows hold a number or, for x / 0 with x # 0, inf.  Rows are numbered
\* from 1 here, from 0 in pandas.
MaxBars == 201

\* lines 136-153
get_feature_columns ==
  <<"Return1", "Return5", "Return10", "Return20", "LogReturn1",
    "Volatility10", "Volatility20", "SMA10", "SMA20", "SMA50", "EMA10", "EMA20",
    "RSI14", "MACD", "MACD_Signal", "Stochastic_K", "Stochastic_D",
    "BB_Upper", "BB_Lower", "BB_Width", "ATR14", "HL_Range", "Gap",
    "Volume_Change", "Volume_SMA20", "Volume_Ratio">>

\* a price column of the input: no row is NaN
Finite == {}

\* Series.shift(periods) of a column of n rows
shift(c, periods, n) ==
  ((IF periods > 0 THEN 1..periods ELSE (n + periods + 1)..n) \cup {k + periods : k \in c})
    \cap (1..n)

\* elementwise arithmetic of two columns whose divisor is never zero
arith(a, b) == a \cup b

\* Series.pct_change(periods) of a column of numbers: s / s.shift(periods) - 1,
\* where 0 / 0 is NaN and x / 0 is inf
pct_change(s, periods) ==
  ((1..periods) \cap (1..Len(s)))
    \cup {k \in (periods + 1)..Len(s) : s[k - periods] = 0 /\ s[k] = 0}

\* Series.rolling(window).mean() / std() / min() / max() of a column of n
\* rows: min_periods = window, and a NaN in the window gives NaN
rolling(c, window, n) ==
  ((1..(window - 1)) \cap (1..n))
    \cup {k \in 1..n : \E j \in c : j <= k /\ k < j + window}

\* Series.where(cond, 0.0): a NaN fails the comparison and is replaced by 0.0
where_else_zero(c) == {}

\* lines 9-21
compute_rsi(close, n) ==
  LET delta == arith(close, shift(close, 1, n))
      avg_gain == rolling(where_else_zero(delta), 14, n)
      avg_loss == rolling(where_else_zero(delta), 14, n)
  IN arith(avg_gain, avg_loss)

\* lines 24-26: ewm(adjust=False).mean() has a value from the first row on
compute_ema(c) == c

\* lines 38-46
compute_stochastic(high, low, close, n) ==
  LET stoch_k == arith(arith(close, rolling(low, 14, n)),
                       arith(rolling(high, 14, n), rolling(low, 14, n)))
  IN [k |-> stoch_k, d |-> rolling(stoch_k, 3, n)]

\* lines 59-67: max(axis=1) skips NaN, and tr1 is never NaN
compute_atr(high, low, close, n) == rolling(arith(high, low), 14, n)

\* lines 83-128: the NaN rows of one feature column
Column(name, df) ==
  LET n == Len(df)
      Close == Finite
      High == Finite
      Low == Finite
      Open == Finite
      CloseValues == [k \in 1..n |-> df[k].Close]
      VolumeValues == [k \in 1..n |-> df[k].Volume]
      Return1 == pct_change(CloseValues, 1)
      BB == rolling(Close, 20, n)
      Volume_SMA20 == rolling(Finite, 20, n)
  IN CASE name = "Return1" -> Return1
       [] name = "Return5" -> pct_change(CloseValues, 5)
       [] name = "Return10" -> pct_change(CloseValues, 10)
       [] name = "Return20" -> pct_change(CloseValues, 20)
       [] name = "LogReturn1" -> arith(Close, shift(Close, 1, n))
       [] name = "Volatility10" -> rolling(Return1, 10, n)
       [] name = "Volatility20" -> rolling(Return1, 20, n)
       [] name = "SMA10" -> rolling(Close, 10, n)
       [] name = "SMA20" -> rolling(Close, 20, n)
       [] name = "SMA50" -> rolling(Close, 50, n)
       [] name \in {"EMA10", "EMA20", "MACD", "MACD_Signal"} -> compute_ema(Close)
       [] name = "RSI14" -> compute_rsi(Close, n)
       [] name = "Stochastic_K" -> compute_stochastic(High, Low, Close, n).k
       [] name = "Stochastic_D" -> compute_stochastic(High, Low, Close, n).d
       [] name \in {"BB_Upper", "BB_Lower", "BB_Width"} -> BB
       [] name = "ATR14" -> compute_atr(High, Low, Close, n)
       [] name = "HL_Range" -> arith(arith(High, Low), Close)
       [] name = "Gap" -> arith(Open, shift(Close, 1, n))
       [] name = "Volume_Change" -> pct_change(VolumeValues, 1)
       [] name = "Volume_SMA20" -> Volume_SMA20
       [] name = "Volume_Ratio" -> arith(Finite, Volume_SMA20)

\* line 131: (Close.shift(-1) > Close).astype(int); the comparison with the NaN
\* that shift(-1) leaves on the last row is False
Target(df) ==
  [k \in 1..Len(df) |-> IF k < Len(df) /\ df[k + 1].Close > df[k].Close THEN 1 ELSE 0]

\* lines 70-133: the returned frame, by columns; nan[c] is the set of rows on
\* which feature column number c is NaN
engineer_features(df) ==
  [Close |-> [k \in 1..Len(df) |-> df[k].Close],
   Volume |-> [k \in 1..Len(df) |-> df[k].Volume],
   Target |-> Target(df),
   nan |-> [c \in 1..Len(get_feature_columns) |-> Column(get_feature_columns[c], df)]]

NoData == [Close |-> <<>>, Volume |-> <<>>, Target |-> <<>>, nan |-> <<>>]

\* the feature columns that are NaN on row k of data
NanColumns(data, k) == {c \in 1..Len(data.nan) : k \in data.nan[c]}

\* model_service.py line 100: dropna(subset=features + ['Target']); Target is
\* an int column and never NaN.  The rows kept, by their number in `data`.
dropna(data) ==
  LET dropped == UNION {data.nan[c] : c \in 1..Len(data.nan)}
  IN SelectSeq([k \in 1..Len(data.Close) |-> k], LAMBDA k : k \notin dropped)

\* the inputs: the shape of the closing prices and the bars without volume
Shapes == {"rising", "falling", "flat", "zigzag"}
CloseOf(shape, n, k) ==
  CASE shape = "rising" -> k
    [] shape = "falling" -> n + 1 - k
    [] shape = "flat" -> 5
    [] shape = "zigzag" -> 5 + (k % 2)
BarCounts == {1, 50, 51, 52, 200, MaxBars}
ZeroVolumeChoices(n) ==
  {{}, {n}, {n - 1, n}, {51, 52}, {60}, 1..n}
NoSlice == [lo |-> 0, hi |-> 0]
OhlcvFrame(shape, n, zero) ==
  [k \in 1..n |-> [Close |-> CloseOf(shape, n, k),
                   Volume |-> IF k \in zero THEN 0 ELSE 1000 + k]]

\* ------------------------------------------------ YahooFinanceService
\* yahoo_service.py.  What the upstream does when yf.Ticker(ticker).info is
\* read: "info" (a valid answer), "empty" (nothing or fewer than 5 fields),
\* "no_name" (an error field, or neither longName nor shortName), "timeout",
\* "exception".
check_interval == 60
InfoUpstream == {"info", "empty", "no_name", "timeout", "exception"}

\* lines 17-71, on the class attributes
get_ticker_info(down, last, current_time, upstream) ==
  IF down /\ current_time - last < check_interval
  THEN [down |-> down, last |-> last, contacted |-> FALSE, info |-> FALSE]
  ELSE CASE upstream = "info" ->
              [down |-> FALSE, last |-> last, contacted |-> TRUE, info |-> TRUE]
         [] upstream = "no_name" ->
              [down |-> down, last |-> last, contacted |-> TRUE, info |-> FALSE]
         [] upstream \in {"empty", "timeout", "exception"} ->
              [down |-> TRUE, last |-> current_time, contacted |-> TRUE, info |-> FALSE]

\* a get_historical_data that goes upstream whatever the flag says
get_historical_data_ignoring_flag(down, upstream) ==
  [df |-> upstream, contacted |-> TRUE]

\* lines 73-106: upstream is what stock.history would give, None included
get_historical_data(down, upstream) ==
  IF down THEN [df |-> NoFrame, contacted |-> FALSE]
  ELSE [df |-> upstream, contacted |-> TRUE]

YahooTickers == {1, 2}
NoYahooCall == [op |-> "none", ticker |-> 0, down |-> FALSE, contacted |-> FALSE,
                hit |-> FALSE, info |-> FALSE]

\* provider_name: Optional[str]
NoName == [is_none |-> TRUE, name |-> ""]
Name(n) == [is_none |-> FALSE, name |-> n]

VARIABLES
  error_count,          \* provider -> StockDataProvider.error_count
  is_available,         \* provider -> StockDataProvider.is_available
  op,                   \* the call in progress or just finished ("none" when idle)
  pc,                   \* position of the call: "idle", an await point, "done"
  search_terms,         \* argument of fetch_comprehensive_stocks
  available_providers,  \* line 67 snapshot
  ticker_symbols,       \* lines 76-85
  company_names,
  i,                    \* index of the provider being tried / probed
  name_i,               \* index into company_names[:3]
  stocks,               \* results of the provider being tried
  all_results,          \* accumulator
  ret,                  \* list returned by fetch_comprehensive_stocks
  raised,               \* TRUE when an exception escaped the call
  health,               \* health_check result under construction
  status,               \* get_provider_status result
  \* history variables (not program state)
  streak,               \* provider -> consecutive on_error calls since the last
                        \*   on_success / reset_errors (non-local providers)
  calls,                \* fetch_stock_data invocations of the current call
  errs,                 \* on_error invocations of the current call
  pre,                  \* error_count / is_available when the call started
  \* further program state
  provider_name,        \* argument of reset_provider_errors
  hung,                 \* TRUE while an awaited fetch_stock_data never completes
  probability,          \* argument of get_confidence_label, in millionths
  confidence,           \* its return value
  n_samples,            \* walk_forward_validation: len(X)
  split,                \* index of the split the loop is at
  accuracies,           \* list of scores, each <<correct, test rows>>
  total_test_samples,
  wf_pc,                \* "idle", "loop", "done"
  wf_ret,               \* returned (accuracy, samples)
  fits,                 \* history: the model.fit calls of the current call
  model_cache,          \* core.cache.model_cache: entries, least recently used first
  now,                  \* the cache's timer, in seconds
  tp,                   \* outcome of the last train_and_predict call
  tp_hist,              \* history: what that call did and what it started from
  memo,                 \* history: the result last returned for ticker 1
  thread,               \* thread -> the breaker method it is in, its position, its register
  target,               \* the provider object the threads share
  base,                 \* history: that provider's fields before the concurrent calls
  yf_pc,                \* YFinanceDirectProvider.fetch_stock_data: "idle", "loop", "break"
  yf_symbols,           \* its argument
  yf_i,                 \* index of the symbol the loop is at
  yf_stocks,            \* stocks
  yf_errors,            \* errors
  yf_ret,               \* the list it returned
  yf_rate_limited,      \* history: index of the first symbol whose lookup was rate limited
  ef_pc,                \* "idle", "fetched", "engineered", "tp_data", "tp_model_data", "trained"
  ef_arg,               \* history: the frame as it was passed in
  ef_df,                \* the caller's frame df after the call
  ef_data,              \* data, the frame engineer_features returned
  ef_model_data,        \* model_data, by the row numbers of data it keeps
  ef_y,                 \* y
  ef_baseline,          \* baseline_accuracy as <<sum, count>>
  ef_last_test,         \* rows of y in the last walk-forward test slice
  ef_error,             \* message of the ValueError raised, "" when none
  yahoo_finance_down,   \* YahooFinanceService._yahoo_finance_down
  last_check_time,      \* YahooFinanceService._last_check_time
  yh                    \* history: the last call into the Yahoo-backed services

cbvars == <<error_count, is_available, streak>>
callvars == <<op, pc, search_terms, available_providers, ticker_symbols, company_names,
              i, name_i, stocks, all_results, ret, raised, health, status,
              calls, errs, pre, provider_name>>
\* state that the orchestrator's completed steps never write
labelvars == <<probability, confidence>>
wfvars == <<n_samples, split, accuracies, total_test_samples, wf_pc, wf_ret, fits>>
predvars == <<model_cache, now, tp, tp_hist, memo>>
thrvars == <<thread, target, base>>
yfvars == <<yf_pc, yf_symbols, yf_i, yf_stocks, yf_errors, yf_ret, yf_rate_limited>>
efvars == <<ef_pc, ef_arg, ef_df, ef_data, ef_model_data, ef_y, ef_baseline,
            ef_last_test, ef_error>>
yahoovars == <<yahoo_finance_down, last_check_time, yh>>
othervars == <<yfvars, efvars, yahoovars>>
svcvars == <<hung, labelvars, wfvars, predvars, thrvars, othervars>>
fetchervars == <<cbvars, callvars, hung>>
vars == <<error_count, is_available, op, pc, search_terms, available_providers,
          ticker_symbols, company_names, i, name_i, stocks, all_results, ret, raised,
          health, status, streak, calls, errs, pre, provider_name, svcvars>>

\* --------------------------------------------------------- circuit breaker
\* The breaker operations act on a bundle S of the providers' fields:
\*   S.error_count, S.is_available   (program state)
\*   S.streak, S.errs                (history, written only by the Call* wrappers)

\* on_success re-enabling the provider without clearing its error count
on_success_keeps_count(S, p) ==
  [S EXCEPT !.is_available[p] = TRUE]

\* base_provider.py on_success
on_success(S, p) ==
  [S EXCEPT !.error_count[p] = 0, !.is_available[p] = TRUE]

\* on_error comparing with > instead of >=: the breaker trips one error late
base_on_error_trips_late(S, p) ==
  LET n == S.error_count[p] + 1
  IN [S EXCEPT !.error_count[p] = n,
               !.is_available[p] = IF n > max_errors THEN FALSE ELSE @]

\* base_provider.py on_error
base_on_error(S, p) ==
  LET n == S.error_count[p] + 1
  IN [S EXCEPT !.error_count[p] = n,
               !.is_available[p] = IF n >= max_errors THEN FALSE ELSE @]

\* the local provider without its on_error override
local_on_error_not_overridden(S, p) == base_on_error(S, p)

\* local_provider.py on_error: logs only
local_on_error(S, p) == S

\* method resolution of provider.on_error
on_error(S, p) ==
  IF p = LocalDatabase THEN local_on_error(S, p) ELSE base_on_error(S, p)

\* base_provider.py reset_errors
reset_errors(S, p) ==
  [S EXCEPT !.error_count[p] = 0, !.is_available[p] = TRUE]

\* The call sites, with the history they leave.
CallOnSuccess(S, p) ==
  [on_success(S, p) EXCEPT !.streak[p] = 0]

CallOnError(S, p, cause) ==
  LET T == on_error(S, p)
  IN [T EXCEPT !.streak[p] = IF p = LocalDatabase THEN @ ELSE S.streak[p] + 1,
               !.errs = Append(S.errs, [provider |-> p, cause |-> cause])]

CallResetErrors(S, p) ==
  [reset_errors(S, p) EXCEPT !.streak[p] = 0]

Bundle == [error_count |-> error_count, is_available |-> is_available,
           streak |-> streak, errs |-> errs]

WithinCap(S) == \A p \in Providers : S.error_count[p] <= MaxErrorCount

InstallBundle(S) ==
  /\ WithinCap(S)
  /\ error_count' = S.error_count
  /\ is_available' = S.is_available
  /\ streak' = S.streak
  /\ errs' = S.errs

\* ------------------------------------------------------- provider fetches
\* _setup_providers: the providers in insertion order, then sorted by priority.
RECURSIVE InsertByPriority(_, _)
InsertByPriority(sorted, p) ==
  IF sorted = <<>> THEN <<p>>
  ELSE IF priority(p) < priority(Head(sorted)) THEN <<p>> \o sorted
  ELSE <<Head(sorted)>> \o InsertByPriority(Tail(sorted), p)

\* list.sort(key=priority, reverse=True) on the list as it is appended
SortByPriorityReversed(ps) ==
  [k \in 1..Len(ps) |-> ps[Len(ps) + 1 - k]]

RECURSIVE SortByPriority(_)
\* list.sort(key=priority): stable, ascending
SortByPriority(ps) ==
  IF ps = <<>> THEN <<>>
  ELSE InsertByPriority(SortByPriority(SubSeq(ps, 1, Len(ps) - 1)), ps[Len(ps)])

\* the local database provider left out of the list
setup_providers_without_local ==
  SortByPriority(<<YFinanceDirect, AlphaVantage, Finnhub, YahooFinance>>)

setup_providers ==
  SortByPriority(<<LocalDatabase, YFinanceDirect, AlphaVantage, Finnhub, YahooFinance>>)

providers == setup_providers

\* symbols[:limit]
Batch(p, symbols) == SubSeq(symbols, 1, Min(Len(symbols), batch_limit(p)))

RECURSIVE Hits(_, _, _, _)
\* The records of the symbols of a batch whose single-stock lookup gave data
\* (positions in hits), in batch order; every provider sets 'ticker': symbol.
Hits(batch, hits, p, k) ==
  IF k > Len(batch) THEN <<>>
  ELSE (IF k \in hits THEN <<Rec(batch[k], p)>> ELSE <<>>) \o Hits(batch, hits, p, k + 1)

\* What the outside world decides about one fetch_stock_data call:
\*   err  - local: the JSON file is missing or unreadable;
\*          session providers: the aiohttp session itself fails (outside the
\*          per-symbol try blocks), so the exception leaves fetch_stock_data
\*   hits - the positions of the batch whose lookup returns data
\*   file - local: which content the JSON file has
\* YFinanceDirectProvider._fetch_single_stock_yfinance catches every Exception
\* and returns None, so its fetch_stock_data neither raises nor reaches its
\* rate-limit handler.
FetchChoices(p, symbols) ==
  IF p = LocalDatabase
  THEN {[err |-> TRUE, hits |-> {}, file |-> 0]}
       \cup {[err |-> FALSE, hits |-> {}, file |-> f] : f \in 1..Len(LocalFiles)}
  ELSE {[err |-> FALSE, hits |-> h, file |-> 0] : h \in SUBSET (1..Len(Batch(p, symbols)))}
       \cup (IF p \in SessionProviders THEN {[err |-> TRUE, hits |-> {}, file |-> 0]} ELSE {})

\* A fetch result: the bundle after the provider's own on_success / on_error,
\* whether an exception left fetch_stock_data, and the list it returned.
Result(S, r, st) == [S |-> S, raised |-> r, stocks |-> st]

\* LocalDatabaseProvider.fetch_stock_data
local_fetch_stock_data(S, c) ==
  IF c.err
  THEN Result(CallOnError(S, LocalDatabase, "load_error"), FALSE, <<>>)
  ELSE Result(CallOnSuccess(S, LocalDatabase), FALSE, LocalFiles[c.file])

\* YFinanceDirectProvider.fetch_stock_data
yfinance_fetch_stock_data(S, symbols, c) ==
  LET found == Hits(Batch(YFinanceDirect, symbols), c.hits, YFinanceDirect, 1)
  IN Result(IF found # <<>> THEN CallOnSuccess(S, YFinanceDirect) ELSE S, FALSE, found)

\* AlphaVantageProvider / FinnhubProvider / YahooFinanceProvider .fetch_stock_data
session_fetch_stock_data(S, p, symbols, c) ==
  LET found == Hits(Batch(p, symbols), c.hits, p, 1)
  IN IF c.err THEN Result(S, TRUE, <<>>)
     ELSE IF found # <<>> THEN Result(CallOnSuccess(S, p), FALSE, found)
     ELSE Result(CallOnError(S, p, "no_stocks"), FALSE, <<>>)

\* method resolution of provider.fetch_stock_data
fetch_stock_data(S, p, symbols, c) ==
  CASE p = LocalDatabase -> local_fetch_stock_data(S, c)
    [] p = YFinanceDirect -> yfinance_fetch_stock_data(S, symbols, c)
    [] OTHER -> session_fetch_stock_data(S, p, symbols, c)

\* An entry of the invocation log.
Invocation(p, kind, symbols, R) ==
  [provider |-> p, kind |-> kind, symbols |-> symbols, raised |-> R.raised,
   stocks |-> R.stocks, available |-> is_available[p]]

\* ------------------------------------------ fetch_comprehensive_stocks
\* The frame K of the coroutine: its locals plus the bundle S.
Frame ==
  [pc |-> pc, search_terms |-> search_terms, available_providers |-> available_providers,
   ticker_symbols |-> ticker_symbols, company_names |-> company_names,
   i |-> i, name_i |-> name_i, stocks |-> stocks, all_results |-> all_results,
   ret |-> ret, raised |-> raised, S |-> Bundle]

Install(K) ==
  /\ pc' = K.pc
  /\ search_terms' = K.search_terms
  /\ available_providers' = K.available_providers
  /\ ticker_symbols' = K.ticker_symbols
  /\ company_names' = K.company_names
  /\ i' = K.i
  /\ name_i' = K.name_i
  /\ stocks' = K.stocks
  /\ all_results' = K.all_results
  /\ ret' = K.ret
  /\ raised' = K.raised
  /\ InstallBundle(K.S)

RECURSIVE DedupKeepsLast(_, _, _)
\* deduplication in which a later record replaces an earlier one of the same ticker
DedupKeepsLast(results, seen_tickers, unique_results) ==
  IF results = <<>> THEN unique_results
  ELSE LET stock == results[Len(results)]
           front == SubSeq(results, 1, Len(results) - 1)
       IN IF stock.ticker # <<>> /\ stock.ticker \notin seen_tickers
          THEN DedupKeepsLast(front, seen_tickers \cup {stock.ticker},
                              <<stock>> \o unique_results)
          ELSE DedupKeepsLast(front, seen_tickers, unique_results)

RECURSIVE Dedup(_, _, _)
\* lines 167-173: first occurrence of each non-empty ticker
Dedup(results, seen_tickers, unique_results) ==
  IF results = <<>> THEN unique_results
  ELSE LET stock == Head(results)
       IN IF stock.ticker # <<>> /\ stock.ticker \notin seen_tickers
          THEN Dedup(Tail(results), seen_tickers \cup {stock.ticker},
                     Append(unique_results, stock))
          ELSE Dedup(Tail(results), seen_tickers, unique_results)

\* lines 162-179: the return of the call
Finish(K) ==
  [K EXCEPT !.pc = "done",
            !.ret = IF K.all_results # <<>> THEN Dedup(K.all_results, {}, <<>>) ELSE <<>>]

\* an exception that no handler catches leaves the call
Propagate(K) == [K EXCEPT !.pc = "done", !.raised = TRUE]

RECURSIVE EnterProvider(_)

\* the loop body going on to the next provider whatever the result count
CollectWithoutEarlyExit(K) ==
  IF K.stocks # <<>>
  THEN EnterProvider([K EXCEPT !.all_results = @ \o K.stocks, !.i = @ + 1])
  ELSE EnterProvider([K EXCEPT !.i = @ + 1])

\* lines 141-153 and the loop's advance
Collect(K) ==
  IF K.stocks # <<>>
  THEN LET K1 == [K EXCEPT !.all_results = @ \o K.stocks]
       IN IF Truthy(K.search_terms) /\ Len(K1.all_results) >= 5
          THEN Finish(K1)
          ELSE EnterProvider([K1 EXCEPT !.i = @ + 1])
  ELSE EnterProvider([K EXCEPT !.i = @ + 1])

\* lines 155-160: the outer handler
HandleError(K, p) ==
  EnterProvider([K EXCEPT !.S = CallOnError(K.S, p, "exception"), !.i = @ + 1])

\* the default-symbol fallback taken only when the whole call has found nothing
AfterNameFallbackOnlyIfNothingYet(K) ==
  IF K.stocks = <<>> /\ K.all_results = <<>> /\ ~Truthy(K.search_terms)
  THEN [K EXCEPT !.pc = "await_default"]
  ELSE Collect(K)

\* line 138: default symbols when this provider has nothing and no terms were given
AfterName(K) ==
  IF K.stocks = <<>> /\ ~Truthy(K.search_terms)
  THEN [K EXCEPT !.pc = "await_default"]
  ELSE Collect(K)

\* line 123: name search when there are names and fewer than 3 results
AfterTicker(K) ==
  IF K.company_names # <<>> /\ Len(K.stocks) < 3
  THEN [K EXCEPT !.pc = "await_name", !.name_i = 1]
  ELSE AfterName(K)

\* line 126: for name in company_names[:3]
NextName(K) ==
  IF K.name_i + 1 <= Min(3, Len(K.company_names))
  THEN [K EXCEPT !.name_i = @ + 1]
  ELSE AfterName(K)

\* line 110
AfterBegin(K) ==
  IF K.ticker_symbols # <<>> THEN [K EXCEPT !.pc = "await_ticker"] ELSE AfterTicker(K)

\* the loop body without its outer try/except
OnExceptionNoOuterTry(K, site, p) ==
  CASE site = "ticker" -> AfterTicker(K)
    [] site = "name" -> AfterName(K)
    [] OTHER -> Propagate(K)

\* The try blocks: where an exception raised by the awaited fetch is handled.
OnException(K, site, p) ==
  CASE site = "ticker" -> AfterTicker(K)
    [] site = "name" -> AfterName(K)
    [] OTHER -> HandleError(K, p)

\* the loop body consulting the local database whether or not terms were given
EnterProviderLocalNotSkipped(K) ==
  IF K.i > Len(K.available_providers) THEN Finish(K)
  ELSE LET p == K.available_providers[K.i]
       IN IF p = LocalDatabase THEN [K EXCEPT !.pc = "await_local"]
          ELSE AfterBegin([K EXCEPT !.stocks = <<>>])

\* lines 91-107: the top of the loop body for provider number K.i
EnterProvider(K) ==
  IF K.i > Len(K.available_providers) THEN Finish(K)
  ELSE LET p == K.available_providers[K.i]
       IN IF p = LocalDatabase /\ Truthy(K.search_terms)
          THEN EnterProvider([K EXCEPT !.i = @ + 1])
          ELSE IF p = LocalDatabase THEN [K EXCEPT !.pc = "await_local"]
          ELSE AfterBegin([K EXCEPT !.stocks = <<>>])

\* ------------------------------------------------------------------ state
Init ==
  /\ error_count = [p \in Providers |-> 0]
  /\ is_available = [p \in Providers |-> TRUE]
  /\ streak = [p \in Providers |-> 0]
  /\ op = "none"
  /\ pc = "idle"
  /\ search_terms = NoTerms
  /\ available_providers = <<>>
  /\ ticker_symbols = <<>>
  /\ company_names = <<>>
  /\ i = 0
  /\ name_i = 0
  /\ stocks = <<>>
  /\ all_results = <<>>
  /\ ret = <<>>
  /\ raised = FALSE
  /\ health = <<>>
  /\ status = <<>>
  /\ calls = <<>>
  /\ errs = <<>>
  /\ pre = <<>>
  /\ provider_name = NoName
  /\ hung = FALSE
  /\ probability = NoProbability
  /\ confidence = "none"
  /\ n_samples = 0
  /\ split = 0
  /\ accuracies = <<>>
  /\ total_test_samples = 0
  /\ wf_pc = "idle"
  /\ wf_ret = NoReturn
  /\ fits = <<>>
  /\ model_cache = <<>>
  /\ now = 0
  /\ tp = NoCall
  /\ tp_hist = NoHist
  /\ memo = NoMemo
  /\ thread = [t \in Threads |-> Ready]
  /\ target = "none"
  /\ base = <<>>
  /\ yf_pc = "idle"
  /\ yf_symbols = <<>>
  /\ yf_i = 0
  /\ yf_stocks = <<>>
  /\ yf_errors = 0
  /\ yf_ret = <<>>
  /\ yf_rate_limited = 0
  /\ ef_pc = "idle"
  /\ ef_arg = <<>>
  /\ ef_df = <<>>
  /\ ef_data = NoData
  /\ ef_model_data = <<>>
  /\ ef_y = <<>>
  /\ ef_baseline = <<0, 0>>
  /\ ef_last_test = NoSlice
  /\ ef_error = ""
  /\ yahoo_finance_down = FALSE
  /\ last_check_time = 0
  /\ yh = NoYahooCall

Snapshot == [error_count |-> error_count, is_available |-> is_available]

\* fetch_comprehensive_stocks(search_terms), lines 63-89, run to its first await
FetchComprehensiveStocks(st) ==
  /\ pc = "idle"
  /\ LET avail == SelectSeq(providers, LAMBDA p : is_available[p])
         K0 == [pc |-> "idle", search_terms |-> st, available_providers |-> avail,
                ticker_symbols |-> IF Truthy(st) THEN FilterTerms(st.list, FALSE) ELSE <<>>,
                company_names |-> IF Truthy(st) THEN FilterTerms(st.list, TRUE) ELSE <<>>,
                i |-> 1, name_i |-> 0, stocks |-> <<>>, all_results |-> <<>>,
                ret |-> <<>>, raised |-> FALSE, S |-> [Bundle EXCEPT !.errs = <<>>]]
     IN Install(IF avail = <<>> THEN [K0 EXCEPT !.pc = "done"] ELSE EnterProvider(K0))
  /\ op' = "fetch_comprehensive_stocks"
  /\ calls' = <<>>
  /\ pre' = Snapshot
  /\ UNCHANGED <<health, status, provider_name, svcvars>>

\* line 104: stocks = await provider.fetch_stock_data()
AwaitLocal ==
  /\ op = "fetch_comprehensive_stocks" /\ pc = "await_local"
  /\ ~hung
  /\ LET p == available_providers[i]
     IN \E c \in FetchChoices(p, <<>>) :
          LET R == fetch_stock_data(Bundle, p, <<>>, c)
              K == [Frame EXCEPT !.S = R.S]
          IN /\ Install(IF R.raised THEN OnException(K, "local", p)
                        ELSE Collect([K EXCEPT !.stocks = R.stocks]))
             /\ calls' = Append(calls, Invocation(p, "all", <<>>, R))
  /\ UNCHANGED <<op, pre, health, status, provider_name, svcvars>>

\* line 113: ticker_results = await provider.fetch_stock_data(ticker_symbols)
AwaitTicker ==
  /\ op = "fetch_comprehensive_stocks" /\ pc = "await_ticker"
  /\ ~hung
  /\ LET p == available_providers[i]
     IN \E c \in FetchChoices(p, ticker_symbols) :
          LET R == fetch_stock_data(Bundle, p, ticker_symbols, c)
              K == [Frame EXCEPT !.S = R.S]
          IN /\ Install(IF R.raised THEN OnException(K, "ticker", p)
                        ELSE AfterTicker([K EXCEPT !.stocks = @ \o R.stocks]))
             /\ calls' = Append(calls, Invocation(p, "ticker", ticker_symbols, R))
  /\ UNCHANGED <<op, pre, health, status, provider_name, svcvars>>

\* line 128: name_results = await provider.fetch_stock_data([name])
AwaitName ==
  /\ op = "fetch_comprehensive_stocks" /\ pc = "await_name"
  /\ ~hung
  /\ LET p == available_providers[i]
         name == company_names[name_i]
     IN \E c \in FetchChoices(p, <<name>>) :
          LET R == fetch_stock_data(Bundle, p, <<name>>, c)
              K == [Frame EXCEPT !.S = R.S]
          IN /\ Install(IF R.raised THEN OnException(K, "name", p)
                        ELSE NextName([K EXCEPT !.stocks = @ \o R.stocks]))
             /\ calls' = Append(calls, Invocation(p, "name", <<name>>, R))
  /\ UNCHANGED <<op, pre, health, status, provider_name, svcvars>>

\* line 139: stocks = await provider.fetch_stock_data(self._get_default_symbols())
AwaitDefault ==
  /\ op = "fetch_comprehensive_stocks" /\ pc = "await_default"
  /\ ~hung
  /\ LET p == available_providers[i]
     IN \E c \in FetchChoices(p, get_default_symbols) :
          LET R == fetch_stock_data(Bundle, p, get_default_symbols, c)
              K == [Frame EXCEPT !.S = R.S]
          IN /\ Install(IF R.raised THEN OnException(K, "default", p)
                        ELSE Collect([K EXCEPT !.stocks = R.stocks]))
             /\ calls' = Append(calls, Invocation(p, "default", get_default_symbols, R))
  /\ UNCHANGED <<op, pre, health, status, provider_name, svcvars>>

\* ------------------------------------------------------------ health_check
\* lines 227-231: the call up to its first probe
HealthCheck ==
  /\ pc = "idle"
  /\ op' = "health_check"
  /\ pc' = "await_probe"
  /\ i' = 1
  /\ health' = <<>>
  /\ calls' = <<>>
  /\ errs' = <<>>
  /\ pre' = Snapshot
  /\ UNCHANGED <<error_count, is_available, streak, search_terms, available_providers,
                 ticker_symbols, company_names, name_i, stocks, all_results, ret,
                 raised, status, provider_name, svcvars>>

\* lines 233-243: one probe of self.providers[i], every provider in turn
ProbeSymbols(p) == IF p = LocalDatabase THEN <<>> ELSE <<RELIANCE_NS>>

AwaitProbe ==
  /\ op = "health_check" /\ pc = "await_probe"
  /\ LET p == providers[i]
     IN \E c \in FetchChoices(p, ProbeSymbols(p)) :
          LET R == fetch_stock_data(Bundle, p, ProbeSymbols(p), c)
          IN /\ InstallBundle(R.S)
             /\ health' = (p :> (~R.raised /\ Len(R.stocks) > 0)) @@ health
             /\ calls' = Append(calls, Invocation(p, "probe", ProbeSymbols(p), R))
  /\ i' = i + 1
  /\ pc' = IF i + 1 > Len(providers) THEN "done" ELSE "await_probe"
  /\ UNCHANGED <<op, pre, search_terms, available_providers, ticker_symbols,
                 company_names, name_i, stocks, all_results, ret, raised, status,
                 provider_name, svcvars>>

\* ------------------------------------- get_provider_status, reset_provider_errors
\* lines 201-212
GetProviderStatus ==
  /\ pc = "idle"
  /\ op' = "get_provider_status"
  /\ pc' = "done"
  /\ status' = [p \in Providers |->
                  [available |-> is_available[p], priority |-> priority(p),
                   error_count |-> error_count[p],
                   requires_api_key |-> requires_api_key(p)]]
  /\ calls' = <<>>
  /\ errs' = <<>>
  /\ pre' = Snapshot
  /\ UNCHANGED <<error_count, is_available, streak, search_terms, available_providers,
                 ticker_symbols, company_names, i, name_i, stocks, all_results, ret,
                 raised, health, provider_name, svcvars>>

ResetInputs == {NoName, Name(""), Name("Unknown")} \cup {Name(p) : p \in Providers}

RECURSIVE ResetFirstNamed(_, _, _)
\* lines 217-220: reset the first provider of the list with that name, then break
ResetFirstNamed(S, ps, n) ==
  IF ps = <<>> THEN S
  ELSE IF Head(ps) = n THEN CallResetErrors(S, Head(ps))
  ELSE ResetFirstNamed(S, Tail(ps), n)

RECURSIVE ResetAll(_, _)
\* lines 222-223
ResetAll(S, ps) ==
  IF ps = <<>> THEN S ELSE ResetAll(CallResetErrors(S, Head(ps)), Tail(ps))

\* lines 214-225
reset_provider_errors(S, pn) ==
  IF ~pn.is_none /\ pn.name # ""
  THEN ResetFirstNamed(S, providers, pn.name)
  ELSE ResetAll(S, providers)

ResetProviderErrors ==
  /\ pc = "idle"
  /\ \E pn \in ResetInputs :
       /\ InstallBundle([reset_provider_errors(Bundle, pn) EXCEPT !.errs = <<>>])
       /\ provider_name' = pn
  /\ op' = "reset_provider_errors"
  /\ pc' = "done"
  /\ calls' = <<>>
  /\ pre' = Snapshot
  /\ UNCHANGED <<search_terms, available_providers, ticker_symbols, company_names,
                 i, name_i, stocks, all_results, ret, raised, health, status, svcvars>>

\* The finished call's frame is dropped.
Return ==
  /\ pc = "done"
  /\ op' = "none"
  /\ pc' = "idle"
  /\ search_terms' = NoTerms
  /\ available_providers' = <<>>
  /\ ticker_symbols' = <<>>
  /\ company_names' = <<>>
  /\ i' = 0
  /\ name_i' = 0
  /\ stocks' = <<>>
  /\ all_results' = <<>>
  /\ ret' = <<>>
  /\ raised' = FALSE
  /\ health' = <<>>
  /\ status' = <<>>
  /\ calls' = <<>>
  /\ errs' = <<>>
  /\ pre' = <<>>
  /\ provider_name' = NoName
  /\ UNCHANGED <<error_count, is_available, streak, svcvars>>

StartFetch == \E st \in SearchInputs : FetchComprehensiveStocks(st)

Next ==
  \/ StartFetch
  \/ AwaitLocal
  \/ AwaitTicker
  \/ AwaitName
  \/ AwaitDefault
  \/ HealthCheck
  \/ AwaitProbe
  \/ GetProviderStatus
  \/ ResetProviderErrors
  \/ Return

Spec == Init /\ [][Next]_vars

\* ----------------------------------------- the provider interface alone
\* Direct calls of the three public breaker methods of one provider object, in
\* any order.
InstallBreaker(S) ==
  /\ WithinCap(S)
  /\ \A p \in Providers : S.streak[p] <= MaxErrorCount
  /\ error_count' = S.error_count
  /\ is_available' = S.is_available
  /\ streak' = S.streak

OnSuccess ==
  /\ pc = "idle"
  /\ \E p \in Providers : InstallBreaker(CallOnSuccess(Bundle, p))
  /\ UNCHANGED <<callvars, svcvars>>

OnError ==
  /\ pc = "idle"
  /\ \E p \in Providers : InstallBreaker(CallOnError(Bundle, p, "direct"))
  /\ UNCHANGED <<callvars, svcvars>>

ResetErrors ==
  /\ pc = "idle"
  /\ \E p \in Providers : InstallBreaker(CallResetErrors(Bundle, p))
  /\ UNCHANGED <<callvars, svcvars>>

NextProvider == OnSuccess \/ OnError \/ ResetErrors

SpecProvider == Init /\ [][NextProvider]_vars

\* ------------------------------------------------- get_confidence_label alone
GetConfidenceLabel ==
  /\ \E p \in ProbabilityInputs :
       /\ probability' = p
       /\ confidence' = get_confidence_label(p)
  /\ UNCHANGED <<fetchervars, wfvars, predvars, thrvars, othervars>>

NextConfidence == GetConfidenceLabel

SpecConfidence == Init /\ [][NextConfidence]_vars

\* ---------------------------------------------- walk_forward_validation alone
\* lines 35-37: a call on a feature table of n rows
WalkForwardValidation ==
  /\ wf_pc \in {"idle", "done"}
  /\ \E n \in 0..MaxSamples : n_samples' = n
  /\ accuracies' = <<>>
  /\ total_test_samples' = 0
  /\ split' = 1
  /\ wf_pc' = "loop"
  /\ wf_ret' = NoReturn
  /\ fits' = <<>>
  /\ UNCHANGED <<fetchervars, labelvars, predvars, thrvars, othervars>>

\* lines 46-70: one iteration of the loop over splits
WfSplit ==
  /\ wf_pc = "loop" /\ split <= Len(splits)
  /\ LET train_end_idx == int_times(n_samples, splits[split][1])
         test_end_idx == int_times(n_samples, splits[split][2])
     IN IF too_few(train_end_idx, test_end_idx)
        THEN UNCHANGED <<accuracies, total_test_samples, fits>>
        ELSE \E accuracy \in ScoreChoices(test_end_idx - train_end_idx) :
               /\ accuracies' = Append(accuracies, accuracy)
               /\ total_test_samples' = total_test_samples + (test_end_idx - train_end_idx)
               /\ fits' = Append(fits, [split |-> split, train |-> train_end_idx,
                                        test |-> test_end_idx - train_end_idx,
                                        X_train |-> py_slice(n_samples, 0, train_end_idx),
                                        X_test |-> py_slice(n_samples, train_end_idx, test_end_idx),
                                        accuracy |-> accuracy])
  /\ split' = split + 1
  /\ UNCHANGED <<n_samples, wf_pc, wf_ret, fetchervars, labelvars, predvars, thrvars, othervars>>

\* lines 72-75
WfReturn ==
  /\ wf_pc = "loop" /\ split > Len(splits)
  /\ wf_ret' = IF accuracies = <<>> THEN Return2(<<1, 2>>, 0)
               ELSE Return2(np_mean(accuracies), total_test_samples)
  /\ wf_pc' = "done"
  /\ UNCHANGED <<n_samples, split, accuracies, total_test_samples, fits,
                 fetchervars, labelvars, predvars, thrvars, othervars>>

NextWalkForward == WalkForwardValidation \/ WfSplit \/ WfReturn

SpecWalkForward == Init /\ [][NextWalkForward]_vars

\* ------------------------------------------------------ the prediction path
\* Tickers are numbers.  Requests are for ticker 1 or for the next ticker that
\* has no live cache entry, so the other tickers are asked for in one order.
NextTicker ==
  LET live == {model_cache[k].key[2] : k \in {j \in 1..Len(model_cache) :
                                                now < model_cache[j].expires}} \cup {1}
  IN 1 + CHOOSE m \in live : \A x \in live : x <= m

Requestable == {t \in {1, NextTicker} : t <= MaxTickers}

Remember(t, returned, value, expires) ==
  IF ~returned THEN memo
  ELSE IF t = 1 THEN [valid |-> TRUE, value |-> value, expires |-> expires, others |-> 0]
  ELSE IF memo.valid THEN [memo EXCEPT !.others = @ + 1]
  ELSE memo

\* a wrapper that stores whatever the call ended with, a failure included
wrapper_store_even_on_failure(c, key, R, time) == cache_set(c, key, R.result, time)

\* cache.py lines 45-47: an exception raised by func leaves the wrapper before
\* the assignment to the cache
wrapper_store(c, key, R, time) ==
  IF R.raised THEN c ELSE cache_set(c, key, R.result, time)

\* cache.py lines 33-47 around model_service.py lines 79-151
TrainAndPredict ==
  /\ \E ticker \in Requestable :
       LET cache_key_ == cache_key(ticker)
           before == IF ticker = 1 THEN memo ELSE NoMemo
       IN IF InCache(model_cache, cache_key_, now)
          THEN LET value == CacheValue(model_cache, cache_key_)
               IN /\ model_cache' = Touch(model_cache, cache_key_)
                  /\ tp' = [ticker |-> ticker, raised |-> FALSE, error |-> NoError,
                            result |-> value]
                  /\ tp_hist' = [NoHist EXCEPT !.at = now, !.before = before]
                  /\ memo' = Remember(ticker, TRUE, value, memo.expires)
          ELSE \E df \in HistoryChoices(ticker) :
                 \E valid_rows \in ValidChoices(ticker, df), proba \in ProbaChoices(ticker) :
                   LET R == train_and_predict(ticker, df, valid_rows, proba)
                   IN /\ model_cache' = wrapper_store(model_cache, cache_key_, R, now)
                      /\ tp' = [ticker |-> ticker, raised |-> R.raised, error |-> R.error,
                                result |-> R.result]
                      /\ tp_hist' = [fetched |-> TRUE, fits |-> R.fits, df |-> df,
                                     valid_rows |-> valid_rows, at |-> now, before |-> before]
                      /\ memo' = Remember(ticker, ~R.raised, R.result, now + ttl)
  /\ UNCHANGED <<now, fetchervars, labelvars, wfvars, thrvars, othervars>>

\* time passes, one time-to-live at a step; a result whose time is up is no
\* longer remembered
Tick ==
  /\ now + ttl <= MaxTime
  /\ now' = now + ttl
  /\ memo' = IF memo.valid /\ memo.expires <= now + ttl THEN NoMemo ELSE memo
  /\ UNCHANGED <<model_cache, tp, tp_hist, fetchervars, labelvars, wfvars, thrvars, othervars>>

NextPredict == TrainAndPredict \/ Tick

SpecPredict == Init /\ [][NextPredict]_vars

\* ------------------------------------------- a fetch that never completes
\* yfinance_provider.py lines 18-49 call yfinance synchronously and without a
\* timeout, and lines 113, 128 and 139 of the orchestrator await the fetch
\* without one: the call resumes only when the fetch completes.
HangInputs == {NoTerms, Terms(<<TCS_NS>>), Terms(<<TATA_MOTORS>>)}

StartFetchOnce == \E st \in HangInputs : FetchComprehensiveStocks(st)

Hang ==
  /\ op = "fetch_comprehensive_stocks"
  /\ pc \in {"await_ticker", "await_name", "await_default"}
  /\ available_providers[i] = YFinanceDirect
  /\ ~hung
  /\ hung' = TRUE
  /\ UNCHANGED <<cbvars, callvars, labelvars, wfvars, predvars, thrvars, othervars>>

NextHang ==
  \/ StartFetchOnce
  \/ AwaitLocal
  \/ AwaitTicker
  \/ AwaitName
  \/ AwaitDefault
  \/ Hang
  \/ Return

\* The event loop resumes the coroutine once the awaited fetch has completed.
SpecHang ==
  /\ Init /\ [][NextHang]_vars
  /\ WF_vars(AwaitLocal) /\ WF_vars(AwaitTicker) /\ WF_vars(AwaitName)
  /\ WF_vars(AwaitDefault) /\ WF_vars(Return)

\* ------------------------------------ engineer_features and the labels
\* model_service.py line 88, or any caller building a frame: the frame at hand
GetHistoricalData ==
  /\ ef_pc # "fetched"
  /\ \E shape \in Shapes, n \in BarCounts :
       \E zero \in ZeroVolumeChoices(n) :
         /\ ef_arg' = OhlcvFrame(shape, n, zero)
         /\ ef_df' = OhlcvFrame(shape, n, zero)
  /\ ef_pc' = "fetched"
  /\ ef_data' = NoData
  /\ ef_model_data' = <<>>
  /\ ef_y' = <<>>
  /\ ef_baseline' = <<0, 0>>
  /\ ef_last_test' = NoSlice
  /\ ef_error' = ""
  /\ UNCHANGED <<fetchervars, labelvars, wfvars, predvars, thrvars, yfvars, yahoovars>>

\* features.py lines 70-133, called on that frame: data = df.copy() and every
\* assignment goes to data
EngineerFeatures ==
  /\ ef_pc = "fetched"
  /\ ef_data' = engineer_features(ef_df)
  /\ ef_pc' = "engineered"
  /\ UNCHANGED <<ef_arg, ef_df, ef_model_data, ef_y, ef_baseline, ef_last_test, ef_error,
                 fetchervars, labelvars, wfvars, predvars, thrvars, yfvars, yahoovars>>

\* np.sum of a vector of 0 / 1 labels
SeqSum(q) == Cardinality({j \in 1..Len(q) : q[j] = 1})

\* model_service.py lines 90-94 of train_and_predict, on the fetched history
TpEngineer ==
  /\ ef_pc = "fetched"
  /\ IF Len(ef_df) < 200
     THEN /\ ef_error' = "Insufficient data"
          /\ ef_pc' = "trained"
          /\ UNCHANGED ef_data
     ELSE /\ ef_data' = engineer_features(ef_df)
          /\ ef_pc' = "tp_data"
          /\ UNCHANGED ef_error
  /\ UNCHANGED <<ef_arg, ef_df, ef_model_data, ef_y, ef_baseline, ef_last_test,
                 fetchervars, labelvars, wfvars, predvars, thrvars, yfvars, yahoovars>>

\* lines 96-103
TpDropNa ==
  /\ ef_pc = "tp_data"
  /\ ef_model_data' = dropna(ef_data)
  /\ IF Len(ef_model_data') < 100
     THEN /\ ef_error' = "Not enough valid data after feature engineering"
          /\ ef_pc' = "trained"
     ELSE /\ ef_pc' = "tp_model_data"
          /\ UNCHANGED ef_error
  /\ UNCHANGED <<ef_arg, ef_df, ef_data, ef_y, ef_baseline, ef_last_test,
                 fetchervars, labelvars, wfvars, predvars, thrvars, yfvars, yahoovars>>

\* lines 105-112: the label vector, the last test slice of
\* walk_forward_validation (lines 43, 47-56) and the baseline
TpLabels ==
  /\ ef_pc = "tp_model_data"
  /\ ef_y' = [j \in 1..Len(ef_model_data) |-> ef_data.Target[ef_model_data[j]]]
  /\ LET train_end_idx == int_times(Len(ef_model_data), splits[Len(splits)][1])
         test_end_idx == int_times(Len(ef_model_data), splits[Len(splits)][2])
     IN ef_last_test' = IF too_few(train_end_idx, test_end_idx) THEN NoSlice
                        ELSE py_slice(Len(ef_model_data), train_end_idx, test_end_idx)
  /\ ef_baseline' = <<SeqSum(ef_y'), Len(ef_y')>>
  /\ ef_pc' = "trained"
  /\ UNCHANGED <<ef_arg, ef_df, ef_data, ef_model_data, ef_error,
                 fetchervars, labelvars, wfvars, predvars, thrvars, yfvars, yahoovars>>

NextFeatures ==
  GetHistoricalData \/ EngineerFeatures \/ TpEngineer \/ TpDropNa \/ TpLabels

SpecFeatures == Init /\ [][NextFeatures]_vars

\* ------------------------------------- predictions while Yahoo is down
\* yahoo_service.py lines 17-71
GetTickerInfo ==
  /\ \E ticker \in YahooTickers, upstream \in InfoUpstream :
       LET R == get_ticker_info(yahoo_finance_down, last_check_time, now, upstream)
       IN /\ yahoo_finance_down' = R.down
          /\ last_check_time' = R.last
          /\ yh' = [op |-> "get_ticker_info", ticker |-> ticker, down |-> yahoo_finance_down,
                    contacted |-> R.contacted, hit |-> FALSE, info |-> R.info]
  /\ UNCHANGED <<fetchervars, labelvars, wfvars, predvars, thrvars, yfvars, efvars>>

\* cache.py lines 33-47 around model_service.py lines 79-151, with the history
\* taken from get_historical_data.  The history variable memo is not kept here.
PredictViaYahoo ==
  /\ \E ticker \in YahooTickers :
       LET cache_key_ == cache_key(ticker)
       IN IF InCache(model_cache, cache_key_, now)
          THEN LET value == CacheValue(model_cache, cache_key_)
               IN /\ model_cache' = Touch(model_cache, cache_key_)
                  /\ tp' = [ticker |-> ticker, raised |-> FALSE, error |-> NoError,
                            result |-> value]
                  /\ tp_hist' = [NoHist EXCEPT !.at = now, !.before = NoMemo]
                  /\ yh' = [op |-> "train_and_predict", ticker |-> ticker,
                            down |-> yahoo_finance_down, contacted |-> FALSE,
                            hit |-> TRUE, info |-> FALSE]
          ELSE \E upstream \in {NoFrame, Bars(200)} :
                 LET H == get_historical_data(yahoo_finance_down, upstream)
                     valid_rows == IF H.df.is_none THEN 0 ELSE H.df.len - 50
                     R == train_and_predict(ticker, H.df, valid_rows, 600000)
                 IN /\ model_cache' = wrapper_store(model_cache, cache_key_, R, now)
                    /\ tp' = [ticker |-> ticker, raised |-> R.raised, error |-> R.error,
                              result |-> R.result]
                    /\ tp_hist' = [fetched |-> TRUE, fits |-> R.fits, df |-> H.df,
                                   valid_rows |-> valid_rows, at |-> now, before |-> NoMemo]
                    /\ yh' = [op |-> "train_and_predict", ticker |-> ticker,
                              down |-> yahoo_finance_down, contacted |-> H.contacted,
                              hit |-> FALSE, info |-> FALSE]
  /\ UNCHANGED <<now, memo, yahoo_finance_down, last_check_time,
                 fetchervars, labelvars, wfvars, thrvars, yfvars, efvars>>

\* time passes, half a time-to-live at a step
TickYahoo ==
  /\ now + ttl \div 2 <= MaxTime
  /\ now' = now + ttl \div 2
  /\ UNCHANGED <<model_cache, tp, tp_hist, memo, fetchervars, labelvars, wfvars, thrvars,
                 othervars>>

NextYahoo == GetTickerInfo \/ PredictViaYahoo \/ TickYahoo

SpecYahoo == Init /\ [][NextYahoo]_vars

\* ------------------------------ YFinanceDirectProvider.fetch_stock_data
\* line 18-21
YfFetchStockData ==
  /\ yf_pc = "idle"
  /\ \E n \in 0..MaxSymbols : yf_symbols' = [k \in 1..n |-> k]
  /\ yf_pc' = "loop"
  /\ yf_i' = 1
  /\ yf_stocks' = <<>>
  /\ yf_errors' = 0
  /\ yf_rate_limited' = 0
  /\ yf_ret' = <<>>
  /\ UNCHANGED <<fetchervars, labelvars, wfvars, predvars, thrvars, efvars, yahoovars>>

\* lines 23-40: one iteration of the loop over symbols[:10]
YfLookup ==
  /\ yf_pc = "loop"
  /\ yf_i <= Min(symbol_limit, Len(yf_symbols))
  /\ \E upstream \in Upstream :
       LET R == fetch_single_stock_yfinance(yf_symbols[yf_i], upstream)
       IN /\ yf_rate_limited' = IF upstream = "rate_limit" /\ yf_rate_limited = 0
                                THEN yf_i ELSE yf_rate_limited
          /\ IF R.raised # NoException
             THEN /\ yf_errors' = yf_errors + 1
                  /\ yf_stocks' = yf_stocks
                  /\ IF is_rate_limit(R.raised)
                     THEN /\ InstallBundle(CallOnError(Bundle, YFinanceDirect, "rate_limit"))
                          /\ yf_pc' = "break"
                          /\ yf_i' = yf_i
                     ELSE /\ UNCHANGED <<cbvars, errs, yf_pc>>
                          /\ yf_i' = yf_i + 1
             ELSE /\ IF R.value # NoStock
                     THEN yf_stocks' = Append(yf_stocks, R.value) /\ yf_errors' = yf_errors
                     ELSE yf_stocks' = yf_stocks /\ yf_errors' = yf_errors + 1
                  /\ yf_i' = yf_i + 1
                  /\ UNCHANGED <<cbvars, errs, yf_pc>>
  /\ UNCHANGED <<yf_symbols, yf_ret, op, pc, search_terms, available_providers,
                 ticker_symbols, company_names, i, name_i, stocks, all_results, ret,
                 raised, health, status, calls, pre, provider_name, hung,
                 labelvars, wfvars, predvars, thrvars, efvars, yahoovars>>

\* lines 42-49
YfReturn ==
  /\ \/ yf_pc = "break"
     \/ yf_pc = "loop" /\ yf_i > Min(symbol_limit, Len(yf_symbols))
  /\ InstallBundle(IF yf_stocks # <<>> THEN CallOnSuccess(Bundle, YFinanceDirect) ELSE Bundle)
  /\ yf_ret' = yf_stocks
  /\ yf_pc' = "idle"
  /\ UNCHANGED <<yf_symbols, yf_i, yf_stocks, yf_errors, yf_rate_limited,
                 op, pc, search_terms, available_providers,
                 ticker_symbols, company_names, i, name_i, stocks, all_results, ret,
                 raised, health, status, calls, pre, provider_name, hung,
                 labelvars, wfvars, predvars, thrvars, efvars, yahoovars>>

NextYFinance == YfFetchStockData \/ YfLookup \/ YfReturn

SpecYFinance == Init /\ [][NextYFinance]_vars

\* ------------------------------------------ threads on one provider object
\* base_provider.py lines 36-55 carry no lock: a method called from several
\* threads runs statement by statement, and `self.error_count += 1` is a read
\* followed by a write.  The provider object is chosen by the first call.
TargetProviders == {LocalDatabase, YFinanceDirect}

\* the first statement of a method
FirstPc(m, p) ==
  CASE m = "on_success" -> "line38"
    [] m = "reset_errors" -> "line53"
    [] m = "on_error" -> IF p = LocalDatabase THEN "done" ELSE "line44_read"

ThreadCall(t) ==
  /\ pc = "idle"
  /\ thread[t].pc = "ready"
  /\ \E m \in Methods, p \in TargetProviders :
       /\ target \in {"none", p}
       /\ m = "on_error" => error_count[p] + NThreads <= MaxErrorCount
       /\ target' = p
       /\ thread' = [thread EXCEPT ![t] = [method |-> m, pc |-> FirstPc(m, p), tmp |-> 0]]
  /\ base' = IF \A u \in Threads : thread[u].pc = "ready" THEN Snapshot ELSE base
  /\ UNCHANGED <<fetchervars, labelvars, wfvars, predvars, othervars>>

ThreadStep(t) ==
  LET at == thread[t].pc
      goto(l) == thread' = [thread EXCEPT ![t].pc = l]
  IN /\ at \notin {"ready", "done"}
     /\ CASE at = "line38" ->
               /\ error_count' = [error_count EXCEPT ![target] = 0]
               /\ goto("line39")
               /\ UNCHANGED is_available
          [] at = "line39" ->
               /\ is_available' = [is_available EXCEPT ![target] = TRUE]
               /\ goto("done")
               /\ UNCHANGED error_count
          [] at = "line44_read" ->
               /\ thread' = [thread EXCEPT ![t].pc = "line44_write",
                                           ![t].tmp = error_count[target]]
               /\ UNCHANGED <<error_count, is_available>>
          [] at = "line44_write" ->
               /\ error_count' = [error_count EXCEPT ![target] = thread[t].tmp + 1]
               /\ thread' = [thread EXCEPT ![t].pc = "line47", ![t].tmp = 0]
               /\ UNCHANGED is_available
          [] at = "line47" ->
               /\ goto(IF error_count[target] >= max_errors THEN "line48" ELSE "done")
               /\ UNCHANGED <<error_count, is_available>>
          [] at = "line48" ->
               /\ is_available' = [is_available EXCEPT ![target] = FALSE]
               /\ goto("done")
               /\ UNCHANGED error_count
          [] at = "line53" ->
               /\ error_count' = [error_count EXCEPT ![target] = 0]
               /\ goto("line54")
               /\ UNCHANGED is_available
          [] at = "line54" ->
               /\ is_available' = [is_available EXCEPT ![target] = TRUE]
               /\ goto("done")
               /\ UNCHANGED error_count
     /\ UNCHANGED <<streak, callvars, hung, target, base, labelvars, wfvars, predvars, othervars>>

Quiescent ==
  /\ \A t \in Threads : thread[t].pc \in {"ready", "done"}
  /\ \E t \in Threads : thread[t].pc = "done"

\* every call has returned: the threads are free for the next calls
Join ==
  /\ Quiescent
  /\ thread' = [t \in Threads |-> Ready]
  /\ UNCHANGED <<fetchervars, target, base, labelvars, wfvars, predvars, othervars>>

Call == \E t \in Threads : ThreadCall(t)
Step == \E t \in Threads : ThreadStep(t)

NextThreads == Call \/ Step \/ Join

SpecThreads == Init /\ [][NextThreads]_vars

\* ================================================================ claims
NonLocal == Providers \ {LocalDatabase}
FetchDone == op = "fetch_comprehensive_stocks" /\ pc = "done"
CallsOf(p) == {k \in 1..Len(calls) : calls[k].provider = p}

\* C1: a non-local provider driven by any sequence of on_success / on_error /
\* reset_errors calls is unavailable exactly when at least max_errors on_error
\* calls have come in a row since the last on_success or reset_errors, and its
\* error_count is the length of that run (on_success brings it back to 0).
C1_TripsAtMaxConsecutiveErrors ==
  \A p \in NonLocal :
    /\ error_count[p] = streak[p]
    /\ is_available[p] <=> streak[p] < max_errors

\* C1 witness: a provider has just been tripped by its max_errors-th consecutive
\* error while another one, whose errors were interrupted, is one short of it.
C1_Witness ==
  \E p, q \in NonLocal :
    /\ streak[p] = max_errors /\ ~is_available[p]
    /\ streak[q] = max_errors - 1 /\ is_available[q]

\* C2: in every reachable state of the orchestrator, a non-local provider is
\* unavailable if and only if its error_count is at least max_errors.
C2_UnavailableIffMaxErrors ==
  \A p \in NonLocal : (~is_available[p]) <=> (error_count[p] >= max_errors)

\* C2 witness: one provider disabled with its count past max_errors, another
\* still available with max_errors - 1 errors.
C2_Witness ==
  \E p, q \in NonLocal :
    /\ error_count[p] > max_errors /\ ~is_available[p]
    /\ error_count[q] = max_errors - 1 /\ is_available[q]

\* C3: the local database provider is available with error_count 0 in every
\* reachable state, however many on_error calls it received.
C3_LocalAlwaysAvailable ==
  is_available[LocalDatabase] /\ error_count[LocalDatabase] = 0

\* C3 witness: the local provider's on_error has run for a failed load of the
\* JSON file.
C3_Witness ==
  \E k \in 1..Len(errs) :
    errs[k].provider = LocalDatabase /\ errs[k].cause = "load_error"

ReturnedBy(t) ==
  {calls[k].provider : k \in {n \in 1..Len(calls) :
      \E m \in 1..Len(calls[n].stocks) : calls[n].stocks[m].ticker = t}}

\* C5: the returned list holds no ticker twice, holds every non-empty ticker some
\* provider returned, and the record kept for a ticker comes from the provider
\* with the lowest priority number among those that returned it.
C5_DedupKeepsHighestPriority ==
  FetchDone =>
    /\ \A a, b \in 1..Len(ret) : a # b => ret[a].ticker # ret[b].ticker
    /\ \A j \in 1..Len(ret) :
         /\ ret[j].source \in ReturnedBy(ret[j].ticker)
         /\ \A q \in ReturnedBy(ret[j].ticker) : priority(ret[j].source) <= priority(q)
    /\ \A k \in 1..Len(calls) : \A m \in 1..Len(calls[k].stocks) :
         calls[k].stocks[m].ticker # <<>>
           => \E j \in 1..Len(ret) : ret[j].ticker = calls[k].stocks[m].ticker

\* C5 witness: a finished call in which three providers returned the same ticker.
C5_Witness ==
  /\ FetchDone
  /\ \E j \in 1..Len(ret) : Cardinality(ReturnedBy(ret[j].ticker)) >= 3

\* C6: no exception leaves fetch_comprehensive_stocks, it returns a list, and
\* the list is empty when no fetch of the call returned a record.
C6_NeverRaises ==
  /\ ~raised
  /\ FetchDone =>
       /\ DOMAIN ret = 1..Len(ret)
       /\ (\A k \in 1..Len(calls) : calls[k].stocks = <<>>) => ret = <<>>

\* C6 witness: a finished call of at least three fetches in which a fetch raised,
\* none returned a record, and the empty list came back.
C6_Witness ==
  /\ FetchDone
  /\ ret = <<>>
  /\ Len(calls) >= 3
  /\ \E k \in 1..Len(calls) : calls[k].raised
  /\ \A k \in 1..Len(calls) : calls[k].stocks = <<>>

\* C7 (as stated): every fetch_stock_data that raised during the call was
\* answered by an on_error of that provider for the exception.
C7_RaiseCountsAsError ==
  FetchDone =>
    \A p \in Providers :
      Cardinality({k \in CallsOf(p) : calls[k].raised})
        = Cardinality({e \in 1..Len(errs) :
                         errs[e].provider = p /\ errs[e].cause = "exception"})

\* C8 (as stated): a provider whose fetches of the call all returned nothing,
\* without raising, has the error_count and is_available it had before the call.
C8_EmptyResultLeavesBreaker ==
  FetchDone =>
    \A p \in Providers :
      (/\ CallsOf(p) # {}
       /\ \A k \in CallsOf(p) : ~calls[k].raised /\ calls[k].stocks = <<>>)
        => /\ error_count[p] = pre.error_count[p]
           /\ is_available[p] = pre.is_available[p]

\* C9 (as stated): a provider that is unavailable becomes available again only
\* by reset_provider_errors.
C9_DisabledUntilReset ==
  [][\A p \in Providers :
       (~is_available[p] /\ is_available'[p]) => op' = "reset_provider_errors"]_vars

\* C10 (as stated): no step of a health_check turns an available provider
\* unavailable.
C10_ProbeNeverDisables ==
  [][(op = "health_check" /\ op' = "health_check")
       => \A p \in Providers : is_available[p] => is_available'[p]]_vars

\* C11: during fetch_comprehensive_stocks, fetch_stock_data is never invoked on
\* a provider whose is_available is false at the moment of the invocation.
C11_NeverFetchesUnavailableProvider ==
  op = "fetch_comprehensive_stocks" =>
    \A k \in 1..Len(calls) : calls[k].available

\* C12: reset_provider_errors(name) resets exactly the named provider, without
\* a name it resets every provider, and with a name matching no provider it
\* changes nothing and raises nothing.
C12_ResetNamedAllOrNothing ==
  (op = "reset_provider_errors" /\ pc = "done") =>
    /\ ~raised
    /\ IF provider_name.is_none
       THEN \A p \in Providers : error_count[p] = 0 /\ is_available[p]
       ELSE IF provider_name.name \in Providers
       THEN /\ error_count[provider_name.name] = 0
            /\ is_available[provider_name.name]
            /\ \A q \in Providers \ {provider_name.name} :
                 /\ error_count[q] = pre.error_count[q]
                 /\ is_available[q] = pre.is_available[q]
       ELSE /\ error_count = pre.error_count
            /\ is_available = pre.is_available

\* C13: when fetch_comprehensive_stocks is called with a non-empty list of
\* search terms, the local database provider's fetch_stock_data is never
\* invoked and no local-database record appears in the result.
C13_LocalSkippedWithTerms ==
  (op = "fetch_comprehensive_stocks" /\ Truthy(search_terms)) =>
    /\ CallsOf(LocalDatabase) = {}
    /\ \A k \in 1..Len(all_results) : all_results[k].source # LocalDatabase
    /\ \A k \in 1..Len(ret) : ret[k].source # LocalDatabase

\* a finished call with terms that had the local provider in its snapshot and
\* returned records of other providers
C13_Witness ==
  /\ FetchDone /\ Truthy(search_terms)
  /\ \E k \in 1..Len(available_providers) : available_providers[k] = LocalDatabase
  /\ Len(ret) >= 1
  /\ Len(calls) >= 1

\* C14: get_confidence_label gives HIGH for p >= 0.65 or p <= 0.35, MEDIUM for
\* 0.55 <= p < 0.65 or 0.35 < p <= 0.45, LOW otherwise, and gives p and 1 - p
\* the same label.
C14_ConfidenceBands ==
  probability # NoProbability =>
    /\ confidence =
         IF probability >= 650000 \/ probability <= 350000 THEN "HIGH"
         ELSE IF probability >= 550000 \/ probability <= 450000 THEN "MEDIUM"
         ELSE "LOW"
    /\ get_confidence_label(One - probability) = confidence

\* the test-slice size of split number k and the splits large enough to fit
TestRows(k) == int_times(n_samples, splits[k][2]) - int_times(n_samples, splits[k][1])
Fitted == {k \in 1..3 : TestRows(k) >= 10}
FittedRows(S) == LET f[k \in 0..3] == IF k = 0 THEN 0
                                      ELSE f[k - 1] + (IF k \in S THEN TestRows(k) ELSE 0)
                 IN f[3]

\* C20: walk_forward_validation fits a model for exactly the splits whose test
\* slice int(n*test_end) - int(n*train_end) has at least 10 rows; it returns
\* (0.5, 0) iff all three are skipped, otherwise the unweighted mean of the
\* accuracies of the fitted splits and the sum of their test-slice sizes.
C20_WalkForwardSkipAndReturn ==
  /\ \A j \in 1..Len(fits) : fits[j].split \in Fitted /\ fits[j].test = TestRows(fits[j].split)
  /\ wf_pc = "done" =>
       /\ wf_ret.returned
       /\ {fits[j].split : j \in 1..Len(fits)} = Fitted
       /\ Len(fits) = Cardinality(Fitted)
       /\ (Fitted = {}) <=> (RatEq(wf_ret.accuracy, <<1, 2>>) /\ wf_ret.samples = 0)
       /\ Fitted # {} =>
            /\ wf_ret.samples = FittedRows(Fitted)
            /\ LET t == RatSum([j \in 1..Len(fits) |-> fits[j].accuracy])
               IN RatEq(wf_ret.accuracy, <<t[1], t[2] * Cardinality(Fitted)>>)

\* a finished call in which one split was skipped and two were fitted with
\* different accuracies
C20_Witness ==
  /\ wf_pc = "done" /\ Cardinality(Fitted) = 2 /\ Len(fits) = 2
  /\ ~RatEq(fits[1].accuracy, fits[2].accuracy)
  /\ wf_ret.samples = 20

\* the last call ran the body of train_and_predict on a history that is missing
\* or too short, or on a feature table with too few defined rows
TooLittleData ==
  /\ tp_hist.fetched
  /\ \/ tp_hist.df.is_none
     \/ tp_hist.df.len < 200
     \/ tp_hist.valid_rows < 100

\* C15: for a ticker whose fetched history has fewer than 200 bars or is
\* unavailable, or whose feature table has fewer than 100 fully defined rows,
\* train_and_predict fails with an insufficient-data error, fits no model and
\* returns no prediction payload.
C15_InsufficientDataFails ==
  TooLittleData =>
    /\ tp.raised
    /\ tp.error.type = "ValueError"
    /\ tp.error.message \in
         {<<"Insufficient data for ", tp.ticker>>,
          <<"Not enough valid data after feature engineering for ", tp.ticker>>}
    /\ tp_hist.fits = 0
    /\ tp.result = NoResult
    /\ \A k \in 1..Len(model_cache) :
         model_cache[k].key = cache_key(tp.ticker) => model_cache[k].expires <= tp_hist.at

\* a call that fetched 200 bars of which only 99 rows were fully defined
C15_Witness ==
  /\ TooLittleData /\ tp.raised
  /\ ~tp_hist.df.is_none /\ tp_hist.df.len = 200 /\ tp_hist.valid_rows = 99

\* the last call was for ticker 1, which had returned a result whose
\* time-to-live had not run out
MemoLive ==
  /\ tp.ticker = 1
  /\ tp_hist.before.valid
  /\ tp_hist.at < tp_hist.before.expires

MemoReturned ==
  /\ ~tp.raised
  /\ tp.result = tp_hist.before.value
  /\ ~tp_hist.fetched
  /\ tp_hist.fits = 0

\* C16 as stated: after train_and_predict(t) has returned a result, every later
\* call for t before the 600 s time-to-live runs out returns that memoized
\* result without fetching or fitting, whatever other tickers were requested
\* in between.
C16_MemoizedWhateverElse == MemoLive => MemoReturned

\* C16, amended: ... provided fewer than 100 (the cache's maxsize) other tickers
\* have had a result returned since t's result was last returned.
C16_MemoizedUnlessEvicted ==
  (MemoLive /\ tp_hist.before.others < maxsize) => MemoReturned

\* ticker 1 answered from the cache after 99 other tickers were cached
C16_Witness ==
  /\ MemoLive /\ tp_hist.before.others = maxsize - 1
  /\ MemoReturned

\* C17: the failure reported when the history fetch returns nothing is a
\* different, distinguishable failure from the one reported when the history
\* was fetched but is too short.
C17_UnavailableDistinctFromShort ==
  (tp_hist.fetched /\ tp_hist.df.is_none) =>
    \A short \in {df \in HistoryChoices(tp.ticker) : ~df.is_none /\ df.len < 200} :
      tp.error # train_and_predict(tp.ticker, short, 0, 600000).error

\* the calls made since the threads were last all free, run one after another
\* in the given order of threads
RECURSIVE RunInOrder(_, _)
RunInOrder(S, order) ==
  IF order = <<>> THEN S
  ELSE LET m == thread[Head(order)].method
           T == CASE m = "on_success" -> on_success(S, target)
                  [] m = "on_error" -> on_error(S, target)
                  [] m = "reset_errors" -> reset_errors(S, target)
                  [] OTHER -> S
       IN RunInOrder(T, Tail(order))

ThreadOrders ==
  {o \in [1..NThreads -> Threads] : \A a, b \in 1..NThreads : a # b => o[a] # o[b]}

\* C18: under any interleaving of concurrent on_error, on_success and
\* reset_errors calls on the same provider no update is lost: the resulting
\* (error_count, is_available) is the result of the calls in some sequential
\* order.
C18_ConcurrentCallsSerializable ==
  Quiescent =>
    \E o \in ThreadOrders :
      LET S == RunInOrder(base, o)
      IN /\ error_count[target] = S.error_count[target]
         /\ is_available[target] = S.is_available[target]

\* C19: if one provider's fetch_stock_data never completes,
\* fetch_comprehensive_stocks still eventually treats the call as an error of
\* that provider (on_error), moves on and returns.
C19_HungFetchStillReturns ==
  hung ~> (FetchDone /\ \E k \in 1..Len(errs) : errs[k].provider = YFinanceDirect)

\* C23: in every call to fetch_comprehensive_stocks the providers are invoked
\* in non-decreasing order of their priority number.
C23_InvokedInPriorityOrder ==
  op = "fetch_comprehensive_stocks" =>
    \A j, k \in 1..Len(calls) :
      j < k => priority(calls[j].provider) <= priority(calls[k].provider)

\* a finished call that invoked three different providers
C23_Witness ==
  /\ FetchDone
  /\ Cardinality({calls[k].provider : k \in 1..Len(calls)}) >= 3

\* the results that earlier providers had added to all_results when the
\* invocation number k of the call was made
GatheredBefore(k) ==
  LET f[j \in 0..Len(calls)] ==
        IF j = 0 THEN 0
        ELSE f[j - 1] + (IF j < k /\ calls[j].provider # calls[k].provider
                         THEN Len(calls[j].stocks) ELSE 0)
  IN f[Len(calls)]

\* C24: with search terms, once the accumulated results (before deduplication)
\* reach 5 no further provider is invoked; without search terms the call never
\* stops early on the result count: every available provider is invoked.
C24_EarlyExitAtFiveWithTerms ==
  op = "fetch_comprehensive_stocks" =>
    /\ Truthy(search_terms) => \A k \in 1..Len(calls) : GatheredBefore(k) < 5
    /\ (pc = "done" /\ ~Truthy(search_terms)) =>
         \A j \in 1..Len(available_providers) : CallsOf(available_providers[j]) # {}

\* a call with terms that stopped at 5 or more results with a provider left
C24_Witness ==
  /\ FetchDone /\ Truthy(search_terms)
  /\ Len(all_results) >= 5
  /\ Len(calls) >= 1
  /\ calls[Len(calls)].provider # available_providers[Len(available_providers)]

\* C27: the list of available providers is never empty, because the local
\* database provider is always in it, so the 'No providers available' return
\* of fetch_comprehensive_stocks is never taken.
C27_SomeProviderAlwaysAvailable ==
  /\ SelectSeq(providers, LAMBDA p : is_available[p]) # <<>>
  /\ \E k \in 1..Len(providers) : providers[k] = LocalDatabase /\ is_available[providers[k]]
  /\ op = "fetch_comprehensive_stocks" =>
       /\ available_providers # <<>>
       /\ available_providers[1] = LocalDatabase

\* a call started while every provider but the local one was disabled
C27_Witness ==
  /\ op = "fetch_comprehensive_stocks"
  /\ Len(available_providers) = 2
  /\ Cardinality({p \in NonLocal : ~is_available[p]}) = 3

\* C25: a provider is asked for name terms only while the results gathered so
\* far in the call (all_results) number fewer than 3, and for at most 3 name
\* terms per provider per call.
C25_NameFetchOnlyBelowThreeGathered ==
  op = "fetch_comprehensive_stocks" =>
    /\ \A k \in 1..Len(calls) :
         calls[k].kind = "name" => GatheredBefore(k) < 3
    /\ \A p \in Providers :
         Cardinality({k \in CallsOf(p) : calls[k].kind = "name"}) <= 3

\* C26: when a single-symbol lookup inside YFinanceDirectProvider's
\* fetch_stock_data fails with a rate-limit error, on_error is invoked for the
\* provider and no later symbol of that call is tried.
C26_RateLimitStopsAndCountsError ==
  yf_rate_limited # 0 =>
    /\ \E k \in 1..Len(errs) : errs[k].provider = YFinanceDirect
    /\ error_count[YFinanceDirect] > 0 \/ ~is_available[YFinanceDirect]
    /\ yf_i <= yf_rate_limited

\* C21: every split that walk_forward_validation fits trains on rows
\* [0, trainEnd) and tests on rows [trainEnd, testEnd) with
\* trainEnd <= testEnd <= n, so every test row comes after every training row;
\* for n = 500 the splits are [0,300)/[300,400), [0,350)/[350,450) and
\* [0,400)/[400,500), none skipped.
C21_TestRowsFollowTrainingRows ==
  /\ \A j \in 1..Len(fits) :
       LET f == fits[j]
           trainEnd == int_times(n_samples, splits[f.split][1])
           testEnd == int_times(n_samples, splits[f.split][2])
       IN /\ f.X_train = [lo |-> 0, hi |-> trainEnd]
          /\ f.X_test = [lo |-> trainEnd, hi |-> testEnd]
          /\ trainEnd <= testEnd /\ testEnd <= n_samples
          /\ f.X_train.hi - 1 < f.X_test.lo
          /\ \A r \in {f.X_test.lo, f.X_test.hi - 1} :
               \A t \in {f.X_train.lo, f.X_train.hi - 1} : t < r
  /\ (n_samples = 500 /\ wf_pc = "done") =>
       [j \in 1..Len(fits) |-> <<fits[j].X_train.hi, fits[j].X_test.lo, fits[j].X_test.hi>>]
         = << <<300, 300, 400>>, <<350, 350, 450>>, <<400, 400, 500>> >>

\* the call on 500 samples has returned after fitting three splits
C21_Witness ==
  /\ wf_pc = "done" /\ n_samples = 500
  /\ Len(fits) = 3
  /\ wf_ret.samples = 300

\* C22: for a frame of n >= 51 bars without gaps, engineer_features returns n
\* rows in the same order and leaves its input as it was; every row with
\* index below 49 has a NaN feature column and every row with index 50 or
\* above has every column of get_feature_columns defined.
C22_WarmUpThenFullyPopulated ==
  (ef_pc = "engineered" /\ Len(ef_arg) >= 51) =>
    /\ Len(ef_data.Close) = Len(ef_arg)
    /\ \A k \in 1..Len(ef_arg) :
         ef_data.Close[k] = ef_arg[k].Close /\ ef_data.Volume[k] = ef_arg[k].Volume
    /\ ef_df = ef_arg
    /\ \A k \in 1..Len(ef_arg) :
         /\ k - 1 < 49 => NanColumns(ef_data, k) # {}
         /\ k - 1 >= 50 => NanColumns(ef_data, k) = {}

\* C30: the final bar gets Target = 0; train_and_predict keeps that row after
\* dropna, and its label is the last element of y, counted in
\* baseline_accuracy and lying in the last walk-forward test slice.
C30_FinalBarLabelledZeroAndUsed ==
  (ef_pc = "trained" /\ Len(ef_arg) >= 200) =>
    /\ ef_data.Target[Len(ef_arg)] = 0
    /\ ef_error = ""
    /\ ef_model_data # <<>>
    /\ ef_model_data[Len(ef_model_data)] = Len(ef_arg)
    /\ Len(ef_y) = Len(ef_model_data) /\ ef_y[Len(ef_y)] = 0
    /\ ef_baseline = <<SeqSum(ef_y), Len(ef_y)>>
    /\ ef_last_test.lo < Len(ef_y) /\ Len(ef_y) <= ef_last_test.hi

Entries(c) == {c[k] : k \in 1..Len(c)}

\* C29: a train_and_predict call that raises leaves the model cache as it
\* was; the next call for the same ticker fetches the history again; and an
\* entry enters the cache only as the result that a call returned for that
\* ticker.
C29_FailureLeavesCacheAlone ==
  [][/\ (tp'.raised /\ now' = now) => model_cache' = model_cache
     /\ (tp.raised /\ now' = now /\ tp'.ticker = tp.ticker) => tp_hist'.fetched
     /\ model_cache' # model_cache =>
          /\ ~tp'.raised
          /\ Entries(model_cache') \ Entries(model_cache)
               \subseteq {[key |-> cache_key(tp'.ticker), value |-> tp'.result,
                           expires |-> now + ttl]}]_vars

\* a call for ticker 1 has failed while the results of other tickers are cached
C29_Witness ==
  /\ tp.ticker = 1 /\ tp.raised /\ tp_hist.fetched
  /\ Len(model_cache) >= 2
  /\ \A k \in 1..Len(model_cache) : model_cache[k].key # cache_key(1)

\* a step that is a train_and_predict call made while the flag was set
PredictionWhileDown ==
  /\ now' = now
  /\ yh'.op = "train_and_predict"
  /\ yahoo_finance_down

\* the parts of C28 about the flag: a get_historical_data made with the flag
\* set returns None without going upstream however long ago the flag was set,
\* train_and_predict never changes the flag, and only a get_ticker_info that
\* got a valid answer clears it
StickyFlag ==
  /\ PredictionWhileDown /\ ~yh'.hit => ~yh'.contacted /\ tp_hist'.df = NoFrame
  /\ (now' = now /\ yh'.op = "train_and_predict") =>
       yahoo_finance_down' = yahoo_finance_down
  /\ (yahoo_finance_down /\ ~yahoo_finance_down') =>
       yh'.op = "get_ticker_info" /\ yh'.info

\* C28 as stated: once _yahoo_finance_down is set, get_historical_data returns
\* None without contacting the upstream, whatever time has passed, until a
\* get_ticker_info succeeds; get_historical_data never changes the flag; so
\* every train_and_predict call, for every ticker, fails while the flag is set.
C28_PredictionsFailWhileDown ==
  [][StickyFlag /\ (PredictionWhileDown => tp'.raised)]_vars

\* C28, amended: ... so every train_and_predict call for a ticker that has no
\* live entry in the model cache fails while the flag is set.
C28_UncachedPredictionsFailWhileDown ==
  [][StickyFlag /\ (PredictionWhileDown /\ ~yh'.hit => tp'.raised)]_vars

\* a prediction has failed without a fetch, more than a minute after the flag
\* was set
C28_Witness ==
  /\ yahoo_finance_down
  /\ now - last_check_time > check_interval
  /\ yh.op = "train_and_predict" /\ yh.down /\ ~yh.hit /\ ~yh.contacted
  /\ tp.raised

====
